---- MODULE Spec2Model ----
(***************************************************************************)
(* Load-stepping driver of 3D4_hip.py (hole-in-plate, Arruda-Boyce finite  *)
(* elasticity): the fixed-step quasi-static ramp, the output sink, the     *)
(* stretch/stress history, the end-of-run report, and the shear-modulus    *)
(* saturation of zeta_calc.                                                *)
(*                                                                         *)
(* Python floats are IEEE-754 doubles.  Every double the driver computes   *)
(* lies in {0} \cup [2^-7, 2^6) and is therefore an integer multiple of    *)
(* 2^-60; it is held as that integer, written in base 2^15 with the least  *)
(* significant limb first (<<>> is 0.0), and every arithmetic operation    *)
(* rounds its exact result to 53 significant bits, ties to even.           *)
(***************************************************************************)
EXTENDS Integers, Sequences, FiniteSets

(***************************************************************************)
(* Non-negative integers of arbitrary size: limb sequences, base 2^15.     *)
(***************************************************************************)
LimbBits == 15
Base == 2^15
FracBits == 60          \* 1.0 is 2^FracBits
Mantissa == 53          \* significant bits of a double

RECURSIVE Norm(_)
Norm(s) == IF s = <<>> THEN <<>>
           ELSE IF s[Len(s)] = 0 THEN Norm(SubSeq(s, 1, Len(s) - 1)) ELSE s

RECURSIVE AddCarry(_, _, _)
AddCarry(a, b, c) ==
    IF a = <<>> /\ b = <<>> THEN (IF c = 0 THEN <<>> ELSE <<c>>)
    ELSE LET x == IF a = <<>> THEN 0 ELSE Head(a)
             y == IF b = <<>> THEN 0 ELSE Head(b)
             s == x + y + c
         IN  <<s % Base>> \o AddCarry(IF a = <<>> THEN <<>> ELSE Tail(a),
                                      IF b = <<>> THEN <<>> ELSE Tail(b),
                                      s \div Base)

BigAdd(a, b) == Norm(AddCarry(a, b, 0))

RECURSIVE MulCarry(_, _, _)
MulCarry(a, m, c) ==
    IF a = <<>> THEN (IF c = 0 THEN <<>> ELSE <<c % Base>> \o MulCarry(<<>>, m, c \div Base))
    ELSE LET p == Head(a) * m + c
         IN  <<p % Base>> \o MulCarry(Tail(a), m, p \div Base)

\* a * m for 0 <= m < 2^15
MulSmall(a, m) == Norm(MulCarry(a, m, 0))

\* floor(a / d) and a mod d for 0 < d < 2^15, most significant limb first
RECURSIVE DivFrom(_, _, _, _)
DivFrom(a, d, i, r) ==
    IF i = 0 THEN [q |-> <<>>, r |-> r]
    ELSE LET x    == r * Base + a[i]
             rest == DivFrom(a, d, i - 1, x % d)
         IN  [q |-> rest.q \o <<x \div d>>, r |-> rest.r]

DivSmall(a, d) == LET res == DivFrom(a, d, Len(a), 0)
                  IN  [q |-> Norm(res.q), r |-> res.r]

RECURSIVE IntBits(_)
IntBits(x) == IF x = 0 THEN 0 ELSE 1 + IntBits(x \div 2)

BitLen(a) == IF a = <<>> THEN 0 ELSE LimbBits * (Len(a) - 1) + IntBits(a[Len(a)])

IsOdd(a) == a # <<>> /\ a[1] % 2 = 1

Zeros(n) == [i \in 1..n |-> 0]

ShiftLeft(a, k) ==
    IF a = <<>> THEN <<>>
    ELSE Zeros(k \div LimbBits) \o MulSmall(a, 2^(k % LimbBits))

AllZero(s) == \A i \in 1..Len(s) : s[i] = 0

\* a = hi * 2^k + rem with 0 <= rem < 2^k (k >= 1): hi, the top bit of rem
\* (rem >= 2^(k-1)) and whether any lower bit of rem is set
Split(a, k) ==
    LET L    == k \div LimbBits
        b    == k % LimbBits
        low  == SubSeq(a, 1, IF L < Len(a) THEN L ELSE Len(a))
        high == IF L < Len(a) THEN SubSeq(a, L + 1, Len(a)) ELSE <<>>
        d    == DivSmall(high, 2^b)
    IN  IF b > 0
        THEN [hi   |-> d.q,
              top  |-> d.r \div 2^(b - 1),
              rest |-> (d.r % 2^(b - 1) # 0) \/ ~AllZero(low)]
        ELSE LET last == IF Len(low) = L /\ L > 0 THEN low[L] ELSE 0
             IN  [hi   |-> high,
                  top  |-> last \div 2^(LimbBits - 1),
                  rest |-> (last % 2^(LimbBits - 1) # 0)
                           \/ ~AllZero(SubSeq(low, 1, Len(low) - 1))]

\* round-half-to-even of hi + (top/2 + ...) where sticky marks a dropped
\* nonzero part below everything held
RoundUp(s, sticky) == s.top = 1 /\ (s.rest \/ sticky \/ IsOdd(s.hi))

Bump(a, up) == IF up THEN BigAdd(a, <<1>>) ELSE a

\* the double nearest to a (+ a dropped positive part when sticky)
RoundSig(a, sticky) ==
    LET n == BitLen(a)
    IN  IF n <= Mantissa THEN a
        ELSE LET s == Split(a, n - Mantissa)
             IN  ShiftLeft(Bump(s.hi, RoundUp(s, sticky)), n - Mantissa)

BigLess(a, b) ==
    \/ Len(a) < Len(b)
    \/ /\ Len(a) = Len(b)
       /\ \E i \in 1..Len(a) : /\ a[i] < b[i]
                               /\ \A j \in (i + 1)..Len(a) : a[j] = b[j]

(***************************************************************************)
(* Double arithmetic.                                                      *)
(***************************************************************************)
RECURSIVE BigOfInt(_)
BigOfInt(n) == IF n = 0 THEN <<>> ELSE <<n % Base>> \o BigOfInt(n \div Base)

FloatOfInt(n) == ShiftLeft(BigOfInt(n), FracBits)     \* n.0, 0 <= n < 2^31
FAdd(x, y) == RoundSig(BigAdd(x, y), FALSE)           \* x + y
FMulInt(x, n) == RoundSig(MulSmall(x, n), FALSE)      \* x * n.0
FDivInt(x, n) ==                                      \* x / n.0
    LET d == DivSmall(x, n) IN RoundSig(d.q, d.r # 0)
FLess(x, y) == BigLess(x, y)
FLeq(x, y) == x = y \/ BigLess(x, y)

\* round(x, digits) for 1 <= digits <= 9, as the integer x * 10^digits rounded
\* half to even on the exact binary value of x (float_round of CPython);
\* 10^digits = 2^digits * 5^digits, and 5^digits is applied three digits at a time
RECURSIVE MulPow5(_, _)
MulPow5(a, n) == IF n = 0 THEN a
                 ELSE IF n >= 3 THEN MulPow5(MulSmall(a, 125), n - 3)
                 ELSE MulPow5(MulSmall(a, 5), n - 1)

RoundDigits(x, digits) ==
    LET s == Split(MulPow5(x, digits), FracBits - digits)
    IN  Bump(s.hi, RoundUp(s, FALSE))

(***************************************************************************)
(* Simulation time control-related parameters (3D4_hip.py, 56-110).        *)
(***************************************************************************)
L0 == 15                                  \* gage length, mm
stretch == 3                              \* axial stretch
rate == 1
numSteps == 100
dispTot == (stretch - 1) * L0             \* axial displacement, 30.0
Ttot == (stretch - 1) \div rate           \* 2.0
dt == FDivInt(FloatOfInt(Ttot), numSteps) \* (fixed) step size, the double 0.02
totSteps == numSteps + 1

Zero == <<>>                              \* 0.0
One == FloatOfInt(1)                      \* 1.0

\* dispRamp = Expression("dispTot*t/Ttot"), evaluated at its attribute t
dispRamp(tt) == FDivInt(FMulInt(tt, dispTot), Ttot)

\* a guard that compares without rounding: t + dt <= Ttot
LoopGuard_NoRound(tt) == FLeq(FAdd(tt, dt), FloatOfInt(Ttot))

\* a guard that tests the time already reached: round(t, 9) <= Ttot
LoopGuard_Late(tt) == LET n == RoundDigits(tt, 9)
                          lim == BigOfInt(Ttot * 10^9)
                      IN  n = lim \/ BigLess(n, lim)

\* the loop guard round(t + dt, 9) <= Ttot.  round gives the double nearest
\* to n * 10^-9, n = RoundDigits(.., 9); that double is <= 2.0 exactly when
\* n <= Ttot * 10^9
LoopGuard(tt) == LET n == RoundDigits(FAdd(tt, dt), 9)
                     lim == BigOfInt(Ttot * 10^9)
                 IN  n = lim \/ BigLess(n, lim)

\* the stretch without the gage length added: (dispTot*t/Ttot)/L0
ImposedStretch_NoGage(tt) == FDivInt(dispRamp(tt), L0)

\* imposed axial stretch stored in timeHist0: (L0 + dispTot*t/Ttot)/L0
ImposedStretch(tt) == FDivInt(FAdd(FloatOfInt(L0), dispRamp(tt)), L0)

(***************************************************************************)
(* Fields of the mixed space ME.  A field is known by what the driver can  *)
(* observe of it: the x-displacement on xtop (region 35), the components   *)
(* the other Dirichlet conditions fix, whether it satisfies Res = 0 to the *)
(* Newton tolerances, and whether J = det F > 0 everywhere.                *)
(***************************************************************************)
Field(ux, bal, jpos) == [xtop_u1 |-> ux, fixed |-> Zero, balanced |-> bal, Jpos |-> jpos]

ZeroField == Field(Zero, TRUE, TRUE)      \* Function(ME): u = 0, p = 0, F = I, J = 1

\* bcs_1..bcs_5 as the solver imposes them: bcs_3 is dispRamp at its current
\* t, the other four are 0
SolverField(rampT, bal, jpos) == Field(dispRamp(rampT), bal, jpos)

\* 2*assemble(P11*ds(35))/(W0*T0): the nominal stress of the field.  The
\* constitutive response is not evaluated here; the stress of an equilibrium
\* field is stood for by the boundary displacement that determines the field
Reaction(f) == f.xtop_u1

\* results written without their time: every group lands on t = 0
Snapshot_Untagged(tt, f) == [time |-> Zero, field |-> f]

\* one writeResults(t) call: disp, p, J, LambdaBar, P11, P22, P33, Mises of
\* the current w, all tagged t
Snapshot(tt, f) == [time |-> tt, field |-> f]

\* numpy item assignment a[i] = v, 0-based
SetItem(a, i, v) == [a EXCEPT ![i + 1] = v]

(***************************************************************************)
(* Arruda-Boyce shear modulus (3D4_hip.py, 95-96 and 160-173), in exact    *)
(* rational arithmetic: a rational is [num, den] in lowest terms.          *)
(***************************************************************************)
Abs(x) == IF x < 0 THEN -x ELSE x

RECURSIVE GCD(_, _)
GCD(a, b) == IF b = 0 THEN a ELSE GCD(b, a % b)

\* gcd of the magnitudes, 1 when both are 0
Common(a, b) == LET g == GCD(Abs(a), Abs(b)) IN IF g = 0 THEN 1 ELSE g

Rat(n, d) == LET g == Common(n, d) * (IF d < 0 THEN -1 ELSE 1)
             IN  [num |-> n \div g, den |-> d \div g]
RatInt(n) == [num |-> n, den |-> 1]
RatMul(a, b) == LET g1 == Common(a.num, b.den)
                    g2 == Common(b.num, a.den)
                IN  Rat((a.num \div g1) * (b.num \div g2), (a.den \div g2) * (b.den \div g1))
RatDiv(a, b) == RatMul(a, Rat(b.den, b.num))
RatSub(a, b) == Rat(a.num * b.den - b.num * a.den, a.den * b.den)
RatGt(a, b) == a.num * b.den > b.num * a.den      \* for positive denominators
RatFinite(a) == a.den # 0

Grid == 5^3                        \* effective stretches are multiples of 1/Grid
Gshear_0 == 280                    \* ground state shear modulus
lambdaL == Rat(512, 100)           \* locking stretch 5.12
Saturation == Rat(95, 100)         \* the 0.95 of zeta_calc

\* no saturation
Clamp_Off(z) == z

\* z = conditional(gt(z, 0.95), 0.95, z)
Clamp(z) == IF RatGt(z, Saturation) THEN Saturation ELSE z

\* zeta_calc and Gshear_AB_calc at an effective stretch lb, with the
\* intermediate values
zeta_calc(lb) ==
    LET z0    == RatDiv(lb, lambdaL)
        z     == Clamp(z0)
        z2    == RatMul(z, z)
        denom == RatSub(RatInt(1), z2)
        beta  == RatDiv(RatMul(z, RatSub(RatInt(3), z2)), denom)
        zeta  == RatMul(RatDiv(lambdaL, RatMul(RatInt(3), lb)), beta)
    IN  [ratio |-> z0, z |-> z, denom |-> denom, beta |-> beta, zeta |-> zeta,
         Gshear |-> RatMul(RatInt(Gshear_0), zeta)]

MaxLambdaBar == 800                \* largest effective stretch tried, in 1/Grid
NotComputed == [ratio |-> RatInt(0)]

VARIABLES t, ii, rampT, w, w_old, sink, timeHist0, timeHist1, stdout,
          plotted, pc, solverCalls, solverRaised,
          lambdaBar, shear

dvars == <<t, ii, rampT, w, w_old, sink, timeHist0, timeHist1, stdout,
          plotted, pc, solverCalls, solverRaised>>
zvars == <<lambdaBar, shear>>
vars == <<dvars, zvars>>

DriverInit ==
    /\ t = Zero
    /\ ii = 0
    /\ rampT = Zero
    /\ w = ZeroField
    /\ w_old = ZeroField
    /\ sink = <<Snapshot(Zero, ZeroField)>>               \* writeResults(t=0.0)
    /\ timeHist0 = SetItem([i \in 1..totSteps |-> Zero], 0, One)
    /\ timeHist1 = [i \in 1..totSteps |-> Zero]
    /\ stdout = <<[line |-> "Simulation Start"]>>
    /\ plotted = <<>>
    /\ pc = "while"
    /\ solverCalls = 0
    /\ solverRaised = FALSE

\* the run starts from the undeformed state, lambdaBar = 1
Init ==
    /\ DriverInit
    /\ lambdaBar = Grid
    /\ shear = NotComputed

\* the loop head without dispRamp.t = t: the ramp keeps its previous time
Advance_StaleRamp ==
    /\ pc = "while"
    /\ LoopGuard(t)
    /\ t' = FAdd(t, dt)
    /\ ii' = ii + 1
    /\ pc' = "solve"
    /\ UNCHANGED <<rampT, w, w_old, sink, timeHist0, timeHist1, stdout, plotted,
                   solverCalls, solverRaised, zvars>>

\* while (round(t + dt, 9) <= Ttot): t += dt; ii += 1; dispRamp.t = t
Advance ==
    /\ pc = "while"
    /\ LoopGuard(t)
    /\ t' = FAdd(t, dt)
    /\ ii' = ii + 1
    /\ rampT' = t'
    /\ pc' = "solve"
    /\ UNCHANGED <<w, w_old, sink, timeHist0, timeHist1, stdout, plotted,
                   solverCalls, solverRaised, zvars>>

\* the guard is false: the loop is left
LoopExit ==
    /\ pc = "while"
    /\ ~LoopGuard(t)
    /\ pc' = "end"
    /\ UNCHANGED <<t, ii, rampT, w, w_old, sink, timeHist0, timeHist1, stdout,
                   plotted, solverCalls, solverRaised, zvars>>

\* the loop body without w_old.vector()[:] = w.vector()
Record_NoOld(f) ==
    /\ sink' = Append(sink, Snapshot(t, f))
    /\ w_old' = w_old
    /\ timeHist0' = SetItem(timeHist0, ii, ImposedStretch(t))
    /\ timeHist1' = SetItem(timeHist1, ii, Reaction(f))
    /\ stdout' = Append(stdout, [line |-> "Step", simTime |-> RoundDigits(t, 4)])
    /\ pc' = "while"

\* the rest of the loop body after a solve that returned: writeResults(t),
\* w_old <- w, the two history entries, the progress lines.  An index past
\* the arrays raises IndexError, which nothing catches.
Record(f) ==
    /\ sink' = Append(sink, Snapshot(t, f))
    /\ w_old' = f
    /\ IF ii < totSteps
       THEN /\ timeHist0' = SetItem(timeHist0, ii, ImposedStretch(t))
            /\ timeHist1' = SetItem(timeHist1, ii, Reaction(f))
            /\ stdout' = Append(stdout, [line |-> "Step", simTime |-> RoundDigits(t, 4)])
            /\ pc' = "while"
       ELSE /\ pc' = "crashed"
            /\ UNCHANGED <<timeHist0, timeHist1, stdout>>

\* solver.solve() returns (iter, converged): w holds the boundary values of
\* bcs and balances Res.  Nothing in the script looks at J: Res takes ln(J)
\* and J**(-2/3) in code built with -ffast-math, which does not promise that
\* a NaN reaches the convergence test, and J is sampled at quadrature points
\* only; so a field with J <= 0 somewhere may be returned as converged.  Under
\* the monotone ramp a region once inverted is taken to stay inverted.
SolveConverged ==
    /\ pc = "solve"
    /\ \E jpos \in BOOLEAN :
          /\ jpos => w.Jpos
          /\ w' = SolverField(rampT, TRUE, jpos)
          /\ Record(w')
    /\ solverCalls' = solverCalls + 1
    /\ UNCHANGED <<t, ii, rampT, plotted, solverRaised, zvars>>

\* except: continue -- the failed step is skipped and the loop goes on
SolveFailed_Continue ==
    /\ pc = "solve"
    /\ \E jpos \in BOOLEAN : w' = SolverField(rampT, FALSE, jpos)
    /\ solverCalls' = solverCalls + 1
    /\ solverRaised' = TRUE
    /\ pc' = "while"
    /\ UNCHANGED <<t, ii, rampT, w_old, sink, timeHist0, timeHist1, stdout, plotted, zvars>>

\* solver.solve() raises (no convergence in 30 iterations, a failed linear
\* solve, ...): except: break.  w is left at the last iterate.
SolveFailed ==
    /\ pc = "solve"
    /\ \E jpos \in BOOLEAN : w' = SolverField(rampT, FALSE, jpos)
    /\ solverCalls' = solverCalls + 1
    /\ solverRaised' = TRUE
    /\ pc' = "end"
    /\ UNCHANGED <<t, ii, rampT, w_old, sink, timeHist0, timeHist1, stdout, plotted, zvars>>

\* End analysis: the two report lines (the elapsed time is wall-clock)
EndAnalysis ==
    /\ pc = "end"
    /\ stdout' = stdout \o <<[line |-> "End computation"], [line |-> "Elapsed real time"]>>
    /\ pc' = "plot"
    /\ UNCHANGED <<t, ii, rampT, w, w_old, sink, timeHist0, timeHist1, plotted,
                   solverCalls, solverRaised, zvars>>

\* plt.plot(timeHist0, timeHist1/1.E3, ...)
Plot ==
    /\ pc = "plot"
    /\ plotted' = <<timeHist0, timeHist1>>
    /\ pc' = "done"
    /\ UNCHANGED <<t, ii, rampT, w, w_old, sink, timeHist0, timeHist1, stdout,
                   solverCalls, solverRaised, zvars>>

Next == Advance \/ LoopExit \/ SolveConverged \/ SolveFailed \/ EndAnalysis \/ Plot

Spec == Init /\ [][Next]_vars

(***************************************************************************)
(* zeta_calc as a function of the effective stretch alone: every stretch   *)
(* of the grid up to MaxLambdaBar / Grid, below and beyond lambdaL.        *)
(***************************************************************************)
ZetaInit ==
    /\ DriverInit
    /\ lambdaBar \in 1..MaxLambdaBar
    /\ shear = NotComputed

Gshear_AB_calc ==
    /\ shear = NotComputed
    /\ shear' = zeta_calc(Rat(lambdaBar, Grid))
    /\ UNCHANGED <<lambdaBar, dvars>>

ZetaSpec == ZetaInit /\ [][Gshear_AB_calc]_vars

(***************************************************************************)
(* Properties of the stepping loop.                                        *)
(***************************************************************************)
Outputs == <<sink, timeHist0, timeHist1>>
Converged == Len(sink) - 1                 \* load steps recorded so far
LastSnapshot == sink[Len(sink)]
Nanos(n) == MulSmall(BigOfInt(10^9), n)    \* n in units of 10^-9
StepNanos(k) == DivSmall(MulSmall(Nanos(Ttot), k), numSteps).q   \* k * Ttot / numSteps

\* C1: when solver.solve() raises, the loop is left at once: no solve is ever
\* invoked again, and the sink and the stretch/stress history stay exactly as
\* they were before the failed step started (a step writes them only after a
\* solve that returned); nothing is recorded for the failed step.
C1_AbortPreservesOutput ==
    [][ /\ (Outputs' # Outputs) => (pc = "solve" /\ ~solverRaised')
        /\ (solverRaised' /\ ~solverRaised) => (pc = "solve" /\ pc' = "end")
        /\ solverRaised => /\ solverCalls' = solverCalls
                           /\ pc' \in {"end", "plot", "done"}
                           /\ Outputs' = Outputs ]_vars

C1_Witness == solverRaised /\ pc = "done" /\ Converged >= 2

\* C2: w_old is written only in a step whose solve returned, once in each such
\* step, with the field that solve left in w: in every state w_old is the
\* field of the most recent converged step (the zero field before the first),
\* and a failed step leaves it as it was.
C2_OldFieldIsLastConverged ==
    /\ [](w_old = LastSnapshot.field /\ w_old.balanced)
    /\ [](Converged = 0 => w_old = ZeroField)
    /\ [][ /\ (w_old' # w_old) => (pc = "solve" /\ ~solverRaised')
           /\ (pc = "solve" /\ ~solverRaised') => (w_old' = w' /\ w_old' # w_old)
           /\ (solverRaised' /\ ~solverRaised) => (w_old' = w_old /\ w' # w_old') ]_vars

C2_Witness == solverRaised /\ Converged >= 1 /\ w_old = LastSnapshot.field /\ w # w_old

\* C3: no field with J = det(F) <= 0 somewhere is accepted: every field stored
\* into w_old and written to the sink has J > 0 everywhere.
C3_AcceptedFieldsHavePositiveJ ==
    /\ w_old.Jpos
    /\ \A i \in 1..Len(sink) : sink[i].field.Jpos

\* the steps the script can still take: two per load step not yet begun, and
\* the position in the current one
Rank == CASE pc = "while" -> 2 * (numSteps - ii) + 4
          [] pc = "solve" -> 2 * (numSteps - ii) + 5
          [] pc = "end"   -> 2
          [] pc = "plot"  -> 1
          [] OTHER        -> 0

\* the positions at which a statement is still to be executed: at "while" the
\* guard selects Advance or LoopExit, the others have no condition
Running == pc \in {"while", "solve", "end", "plot"}

\* C4: the loop always terminates, by the guard turning false or by an abort,
\* after at most numSteps solves: until the script is done it is at a position
\* where it takes a step (it never dies on an exception), and every step
\* brings it closer to the end (Rank decreases and stays >= 0).
\* When every step converges exactly numSteps steps are taken and t ends at
\* Ttot to the nine decimals of the guard.
C4_LoopTerminates ==
    /\ [](pc = "done" \/ Running)
    /\ [](Rank >= 0)
    /\ [][Rank' < Rank]_vars
    /\ [](solverCalls <= numSteps /\ solverCalls = ii - (IF pc = "solve" THEN 1 ELSE 0))
    /\ [](pc \in {"end", "plot", "done"} => (solverRaised \/ ~LoopGuard(t)))
    /\ []((pc \in {"end", "plot", "done"} /\ ~solverRaised) =>
              /\ solverCalls = numSteps
              /\ Converged = numSteps
              /\ RoundDigits(t, 9) = Nanos(Ttot))

C4_Witness == pc = "done" /\ ~solverRaised /\ ii = numSteps /\ FLess(FloatOfInt(Ttot), t)

\* C5: load steps run strictly in order.  Step k is attempted only after steps
\* 1..k-1 converged and its solve starts from the converged field of step k-1;
\* the sink begins with the snapshot of the zero field at t = 0, followed by
\* exactly one snapshot per converged step, the k-th tagged with the time of
\* step k, the tags strictly increasing.
C5_StepsInOrder ==
    /\ [](/\ sink[1] = Snapshot(Zero, ZeroField)
          /\ Converged = solverCalls - (IF solverRaised THEN 1 ELSE 0)
          /\ RoundDigits(LastSnapshot.time, 9) = StepNanos(Converged)
          /\ pc = "solve" => /\ ~solverRaised
                             /\ Converged = ii - 1
                             /\ w = LastSnapshot.field
                             /\ w.balanced)
    /\ [][ (sink' # sink) =>
              /\ pc = "solve" /\ ~solverRaised'
              /\ \E e \in {Snapshot(t, w')} :
                    /\ sink' = Append(sink, e)
                    /\ FLess(LastSnapshot.time, e.time)
                    /\ e.field.balanced ]_vars

C5_Witness == pc = "solve" /\ ii = numSteps /\ Converged = numSteps - 1

\* C6: on completion the driver reports whether the run finished at the target
\* time or was aborted, and the number of steps that converged and were
\* recorded.
C6_ReportsOutcomeAndCount ==
    pc = "done" =>
        \E i \in 1..Len(stdout) :
            /\ "outcome" \in DOMAIN stdout[i]
            /\ stdout[i].outcome = (IF solverRaised THEN "aborted" ELSE "finished")
            /\ stdout[i].steps = Converged

\* 1 + (stretch - 1) * k / numSteps as Python evaluates it, and to nine decimals
ExpectedStretch(k) == FAdd(One, FDivInt(FloatOfInt((stretch - 1) * k), numSteps))
StretchNanos(k) == BigAdd(Nanos(1), StepNanos(k))

\* C7 as stated: the series handed to the final plot is strictly increasing,
\* starts at 1.0, ends at 3.0, and its entry k is 1 + (stretch - 1) * k / numSteps.
C7_SeriesAsStated ==
    pc = "done" =>
        /\ plotted[1][1] = One
        /\ plotted[1][totSteps] = FloatOfInt(stretch)
        /\ \A k \in 0..numSteps : plotted[1][k + 1] = ExpectedStretch(k)
        /\ \A k \in 1..numSteps : FLess(plotted[1][k], plotted[1][k + 1])

\* C7 as amended: the series handed to the final plot starts at exactly 1.0;
\* its entries for the converged steps increase strictly and entry k is
\* 1 + (stretch - 1) * k / numSteps to nine decimals; the entries of the steps
\* that did not converge are still 0.0; when all numSteps steps converged the
\* last entry is 3.0 to nine decimals.
C7_StretchSeries ==
    pc = "done" =>
        /\ plotted[1][1] = One
        /\ \A k \in 1..Converged :
              /\ FLess(plotted[1][k], plotted[1][k + 1])
              /\ RoundDigits(plotted[1][k + 1], 9) = StretchNanos(k)
        /\ \A k \in (Converged + 1)..numSteps : plotted[1][k + 1] = Zero
        /\ ~solverRaised => /\ Converged = numSteps
                            /\ RoundDigits(plotted[1][totSteps], 9) = Nanos(stretch)

C7_Witness ==
    /\ pc = "done" /\ ~solverRaised
    /\ FLess(FloatOfInt(stretch), plotted[1][totSteps])
    /\ plotted[1][5] # ExpectedStretch(4)

\* k * dispTot / numSteps as Python evaluates it, and to nine decimals
ExpectedRamp(k) == FDivInt(FloatOfInt(dispTot * k), numSteps)
RampNanos(k) == DivSmall(MulSmall(MulSmall(Nanos(1), dispTot), k), numSteps).q

\* C8 as stated: the ramp is evaluated at the advanced t of the step before the
\* solve, so the value imposed at step k is k * dispTot / numSteps (dispTot at
\* the last step); the other constrained components are 0; a converged field
\* carries exactly the prescribed values.
C8_RampAsStated ==
    /\ pc = "solve" => /\ rampT = t
                       /\ dispRamp(rampT) = ExpectedRamp(ii)
                       /\ ii = numSteps => dispRamp(rampT) = FloatOfInt(dispTot)
    /\ LastSnapshot.field.xtop_u1 = dispRamp(LastSnapshot.time)
    /\ LastSnapshot.field.fixed = Zero

\* C8 as amended: the ramp is evaluated at the advanced t of the step before
\* the solve (it is dispTot * t / Ttot for that t, never for an earlier one);
\* that value is k * dispTot / numSteps at step k, and dispTot at the last
\* step, to nine decimals; the other constrained components are 0; a converged
\* field carries exactly the prescribed values.
C8_RampIsCurrent ==
    /\ [](pc = "solve" => /\ rampT = t
                          /\ RoundDigits(dispRamp(rampT), 9) = RampNanos(ii))
    /\ [](/\ LastSnapshot.field.xtop_u1 = dispRamp(LastSnapshot.time)
          /\ LastSnapshot.field.fixed = Zero)
    /\ [][pc = "solve" => (w'.xtop_u1 = dispRamp(t) /\ w'.fixed = Zero)]_vars

C8_Witness ==
    /\ pc = "while" /\ ii = numSteps /\ ~solverRaised
    /\ w.xtop_u1 = dispRamp(t)
    /\ FLess(FloatOfInt(dispTot), w.xtop_u1)

\* C10 as stated: 0 <= ii <= numSteps, so every write timeHist0[ii],
\* timeHist1[ii] is inside the arrays of length numSteps + 1; an index is
\* written at most once and index 0 never by the loop; t equals ii * dt
\* whenever the guard is evaluated.
C10_CounterAsStated ==
    /\ [](0 <= ii /\ ii <= numSteps /\ pc # "crashed")
    /\ [](pc = "while" => t = FMulInt(dt, ii))
    /\ [][ (timeHist0' # timeHist0 \/ timeHist1' # timeHist1) =>
              /\ 1 <= ii /\ ii <= numSteps
              /\ timeHist0[ii + 1] = Zero /\ timeHist1[ii + 1] = Zero ]_vars

\* C10 as amended: the same, with t equal to ii * dt to nine decimals (t is the
\* sum of ii rounded additions of dt).
C10_CounterInRange ==
    /\ [](/\ 0 <= ii /\ ii <= numSteps /\ pc # "crashed"
          /\ Len(timeHist0) = totSteps /\ Len(timeHist1) = totSteps
          /\ timeHist0[1] = One /\ timeHist1[1] = Zero)
    /\ [](pc = "while" => RoundDigits(t, 9) = StepNanos(ii))
    /\ [][ (timeHist0' # timeHist0 \/ timeHist1' # timeHist1) =>
              /\ 1 <= ii /\ ii <= numSteps
              /\ timeHist0[ii + 1] = Zero /\ timeHist1[ii + 1] = Zero
              /\ timeHist0' = SetItem(timeHist0, ii, ImposedStretch(t))
              /\ timeHist0'[ii + 1] # Zero
              /\ timeHist1' = SetItem(timeHist1, ii, timeHist1'[ii + 1])
              /\ timeHist1'[ii + 1] # Zero ]_vars

C10_Witness ==
    /\ pc = "while" /\ ii = numSteps
    /\ timeHist0[totSteps] # Zero
    /\ t # FMulInt(dt, ii)

(***************************************************************************)
(* Properties of zeta_calc.                                                *)
(***************************************************************************)
\* zeta where the saturation sets in, lambdaBar = 0.95 * lambdaL
ZetaCap == zeta_calc(RatMul(Saturation, lambdaL)).zeta

\* C9: the ratio z = lambdaBar / lambdaL is replaced by 0.95 when it exceeds
\* 0.95 and is left as it is otherwise, so for every positive lambdaBar, also
\* at and beyond lambdaL, the z that enters beta is at most 0.95, the
\* denominator 1 - z^2 is at least 0.0975, and G = Gshear_0 * zeta is finite,
\* positive and bounded (by its value where the saturation sets in).
C9_Saturation ==
    shear # NotComputed =>
        /\ shear.ratio = Rat(lambdaBar * 100, Grid * 512)
        /\ shear.z = (IF RatGt(shear.ratio, Saturation) THEN Saturation ELSE shear.ratio)
        /\ ~RatGt(shear.z, Saturation)
        /\ ~RatGt(Rat(975, 10000), shear.denom)
        /\ RatFinite(shear.beta) /\ RatFinite(shear.zeta) /\ RatFinite(shear.Gshear)
        /\ RatGt(shear.Gshear, RatInt(0))
        /\ ~RatGt(shear.zeta, ZetaCap)
        /\ shear.Gshear = RatMul(RatInt(Gshear_0), shear.zeta)

C9_Witness ==
    /\ shear # NotComputed
    /\ RatGt(Rat(lambdaBar, Grid), lambdaL)
    /\ shear.z = Saturation
    /\ shear.denom = Rat(975, 10000)

====
